---------------------------- MODULE Spec2Model ----------------------------
(***************************************************************************)
(* AiQuiz: the question Provider (the POST handler of                      *)
(* api/generate-questions/route.ts, in its three variants found in the     *)
(* repository) and the Quiz Flow Controller (page.tsx, SubjectSelect,      *)
(* Quiz.tsx).                                                              *)
(*                                                                         *)
(* The Provider is checked under Spec, the Quiz session under SpecQuiz     *)
(* (SpecQuizFair for what the timer must eventually bring about),          *)
(* the whole flow of views (Home and Quiz) under SpecApp.  All share the   *)
(* variables below.                                                        *)
(***************************************************************************)
EXTENDS Integers, Sequences, FiniteSets, TLC

VARIABLES
    \* ---- Provider (one POST request) ----
    variant,        \* which route.ts variant handles the request
    request,        \* the request body
    pc,             \* position of the handler
    content,        \* how the call of each generation stage settled
    calls,          \* number of invocations of each external service
    response,       \* the response sent (status 0: none yet)
    producer,       \* the stage that produced the questions of the response
    \* ---- Home (page.tsx) ----
    displayView, selectedSubject, selectedLevel,
    \* ---- Quiz (Quiz.tsx) ----
    loading, error, quizQuestions, timePassed, activeQuestion,
    selectedAnswerIndex, quizFinished, isCorrectAnswer, results,
    timerRef,       \* timerRef.current: id of the interval last created, 0 = null
    intervals,      \* ids of the intervals that are live (created, not cleared)
    fetched,        \* number of requests the Quiz has sent to the Provider
    received        \* how the fetch of the question list ended

providerVars == <<variant, request, pc, content, calls, response, producer>>
homeVars == <<displayView, selectedSubject, selectedLevel>>
quizVars == <<loading, error, quizQuestions, timePassed, activeQuestion,
              selectedAnswerIndex, quizFinished, isCorrectAnswer, results,
              timerRef, intervals, fetched, received>>
vars == <<providerVars, homeVars, quizVars>>

Min(a, b) == IF a <= b THEN a ELSE b

\* Array.prototype.slice(0, k) for an integer k >= 0.
Slice(s, k) == SubSeq(s, 1, Min(k, Len(s)))

(***************************************************************************)
(* Bounds of the model.                                                    *)
(***************************************************************************)
\* Largest numberOfQuestions a request carries (the tables hold 5 entries).
MaxCount == 6
\* Longest questions array a generation service returns.
MaxGen == 2
\* Longest question list a Quiz session receives.
MaxQuestions == 2
\* How many of the subjects, and of the levels, the user picks among.
MaxSubjects == 2
MaxLevels == 1

(***************************************************************************)
(* Questions.                                                              *)
(***************************************************************************)
Q(q, o, c) == [question |-> q, options |-> o, correctAnswer |-> c]

\* route.ts and part_001: one flat list, whatever the subject.
fallbackQuestions ==
    << Q("What is the chemical symbol for gold?",
         <<"Au", "Ag", "Fe", "Cu">>, "Au"),
       Q("Which planet is known as the Red Planet?",
         <<"Mars", "Venus", "Jupiter", "Mercury">>, "Mars"),
       Q("What is the process by which plants make their own food using sunlight?",
         <<"Photosynthesis", "Respiration", "Transpiration", "Germination">>,
         "Photosynthesis"),
       Q("What is the largest organ in the human body?",
         <<"Skin", "Liver", "Heart", "Brain">>, "Skin"),
       Q("Which of these is NOT a state of matter?",
         <<"Energy", "Solid", "Liquid", "Gas">>, "Energy") >>

\* part_000: a table keyed by subject (non-ASCII signs spelled out).
mockData ==
    [ s \in {"Mathematics", "Science", "History", "General Knowledge",
             "Machine Learning"} |->
      CASE s = "Mathematics" ->
        << Q("What is the value of pi to two decimal places?",
             <<"3.14", "3.16", "3.12", "3.18">>, "3.14"),
           Q("Solve for x: 2x + 5 = 13",
             <<"x = 4", "x = 5", "x = 3", "x = 6">>, "x = 4"),
           Q("What is the area of a circle with radius 5 units?",
             <<"25pi square units", "10pi square units", "5pi square units",
               "15pi square units">>, "25pi square units"),
           Q("What is the square root of 144?",
             <<"12", "14", "10", "16">>, "12"),
           Q("If a triangle has angles measuring 30, 60, and 90 degrees, what type of triangle is it?",
             <<"Right triangle", "Equilateral triangle", "Isosceles triangle",
               "Scalene triangle">>, "Right triangle") >>
        [] s = "Science" -> fallbackQuestions
        [] s = "History" ->
        << Q("Who was the first President of the United States?",
             <<"George Washington", "Thomas Jefferson", "Abraham Lincoln",
               "John Adams">>, "George Washington"),
           Q("In which year did World War II end?",
             <<"1945", "1939", "1942", "1950">>, "1945"),
           Q("Which ancient civilization built the pyramids at Giza?",
             <<"Ancient Egyptians", "Ancient Greeks", "Romans", "Mayans">>,
             "Ancient Egyptians"),
           Q("Who wrote the Declaration of Independence?",
             <<"Thomas Jefferson", "George Washington", "Benjamin Franklin",
               "John Adams">>, "Thomas Jefferson"),
           Q("Which event marked the beginning of World War I?",
             <<"Assassination of Archduke Franz Ferdinand",
               "The invasion of Poland", "The sinking of the Lusitania",
               "The Treaty of Versailles">>,
             "Assassination of Archduke Franz Ferdinand") >>
        [] s = "General Knowledge" ->
        << Q("Which is the largest ocean on Earth?",
             <<"Pacific Ocean", "Atlantic Ocean", "Indian Ocean",
               "Arctic Ocean">>, "Pacific Ocean"),
           Q("What is the capital of Japan?",
             <<"Tokyo", "Beijing", "Seoul", "Bangkok">>, "Tokyo"),
           Q("Who painted the Mona Lisa?",
             <<"Leonardo da Vinci", "Pablo Picasso", "Vincent van Gogh",
               "Michelangelo">>, "Leonardo da Vinci"),
           Q("Which planet is closest to the Sun?",
             <<"Mercury", "Venus", "Earth", "Mars">>, "Mercury"),
           Q("What is the tallest mountain in the world?",
             <<"Mount Everest", "K2", "Kangchenjunga", "Makalu">>,
             "Mount Everest") >>
        [] s = "Machine Learning" ->
        << Q("What is the process of finding patterns in data called?",
             <<"Data Mining", "Data Cleaning", "Data Visualization",
               "Data Collection">>, "Data Mining"),
           Q("Which algorithm is used for classification problems?",
             <<"Decision Tree", "K-means", "Linear Regression",
               "Principal Component Analysis">>, "Decision Tree"),
           Q("What does CNN stand for in deep learning?",
             <<"Convolutional Neural Network", "Computational Neural Network",
               "Complex Neural Network", "Continuous Neural Network">>,
             "Convolutional Neural Network"),
           Q("Which of these is a supervised learning algorithm?",
             <<"Support Vector Machine", "K-means clustering",
               "Apriori algorithm", "Principal Component Analysis">>,
             "Support Vector Machine"),
           Q("What is the goal of the backpropagation algorithm?",
             <<"To update weights in a neural network",
               "To cluster data points", "To reduce dimensionality",
               "To generate new data samples">>,
             "To update weights in a neural network") >> ]

\* What a generation service may put in a questions array: the code never
\* looks inside the elements, so ill-shaped ones are possible outputs.
GenGood == Q("g1", <<"a", "b", "c", "d">>, "b")
GenBadAnswer == Q("g2", <<"a", "b", "c", "d">>, "z")
GenDupOptions == Q("g3", <<"a", "a", "c", "d">>, "a")
GenShort == Q("g4", <<"a", "b">>, "a")
GenPool == {GenGood, GenBadAnswer, GenDupOptions, GenShort}


(***************************************************************************)
(* Provider: the request body.                                             *)
(***************************************************************************)
\* A field the JSON body does not carry (undefined after destructuring).
Missing == "<undefined>"

\* !x for a string field or an absent one.
Falsy(x) == x \in {Missing, ""}

\* "constructor" stands for the names every object inherits from
\* Object.prototype: mockData["constructor"] is a function, not undefined.
InheritedKeys == {"constructor"}

RequestSubjects == {Missing, "", "History", "Cooking"} \cup InheritedKeys
RequestDifficulties == {Missing, "", "Easy"}

\* body "json": an object (or a non-null primitive) was parsed;
\* body "null": the JSON text null, whose destructuring throws;
\* body "unparsable": request.json() rejects.
Requests ==
    [ body : {"json"}, subject : RequestSubjects,
      difficulty : RequestDifficulties,
      hasCount : {TRUE}, numberOfQuestions : 0..MaxCount ]
    \cup
    [ body : {"json"}, subject : RequestSubjects,
      difficulty : RequestDifficulties,
      hasCount : {FALSE}, numberOfQuestions : {0} ]
    \cup
    [ body : {"null", "unparsable"}, subject : {Missing},
      difficulty : {Missing}, hasCount : {FALSE}, numberOfQuestions : {0} ]

DefaultCount == 10

\* const { ..., numberOfQuestions = 10 } = await request.json()
Count(req) == IF req.hasCount THEN req.numberOfQuestions ELSE DefaultCount

(***************************************************************************)
(* Provider: what an external generation service can answer.               *)
(***************************************************************************)
RECURSIVE SeqsUpTo(_, _)
SeqsUpTo(S, n) ==
    IF n = 0 THEN {<<>>}
    ELSE LET shorter == SeqsUpTo(S, n - 1)
         IN  shorter \cup
             {Append(s, x) : s \in {t \in shorter : Len(t) = n - 1}, x \in S}

\* form of the text once its code fences are removed:
\*   "empty"        nothing
\*   "garbage"      not JSON
\*   "null"         the JSON value null
\*   "noquestions"  a JSON object without a questions member
\*   "nonarray"     a JSON object whose questions member is no array
\*   "array"        a JSON object whose questions member is the array qs
\* fenced: the text is wrapped in ```json ... ``` markers.
Texts ==
    [ form : {"empty", "garbage", "null", "noquestions", "nonarray"},
      fenced : BOOLEAN, qs : {<<>>} ]
    \cup
    [ form : {"array"}, fenced : BOOLEAN, qs : SeqsUpTo(GenPool, MaxGen) ]

NoText == [form |-> "empty", fenced |-> FALSE, qs |-> <<>>]

\* The call rejects (network, quota, bad key), or resolves with a text.
Throws == [throws |-> TRUE, text |-> NoText]
Outcomes == {Throws} \cup [throws : {FALSE}, text : Texts]

\* A stage that was not called.
NotCalled ==
    [throws |-> FALSE, text |-> [form |-> "none", fenced |-> FALSE, qs |-> <<>>]]

\* !content
IsEmptyString(text) == text.form = "empty" /\ ~text.fenced

\* content.replace(/```json|```/g, '').trim()
StripFences(text) == [text EXCEPT !.fenced = FALSE]

\* JSON.parse: throws on anything that is not one JSON value.
JSONParseThrows(text) == text.fenced \/ text.form \in {"empty", "garbage"}

StageFailed == [ok |-> FALSE, questions |-> <<>>]
StageOk(qs) == [ok |-> TRUE, questions |-> qs]

\* ParsedQuestions without the test for an empty array.
ParsedQuestionsNoLengthTest(text) ==
    IF JSONParseThrows(text) \/ text.form \in {"null", "nonarray"}
    THEN StageFailed
    ELSE StageOk(IF text.form = "array" THEN text.qs ELSE <<>>)

\* parsedContent.questions || [] ; Array.isArray ; length === 0
\* (reading .questions of null throws a TypeError, caught like the rest).
ParsedQuestions(text) ==
    IF JSONParseThrows(text) THEN StageFailed
    ELSE IF text.form = "null" THEN StageFailed
    ELSE LET questions == IF text.form = "array" THEN text.qs ELSE <<>>
             isArray == text.form # "nonarray"
         IN  IF ~isArray \/ Len(questions) = 0 THEN StageFailed
             ELSE StageOk(questions)

\* The Gemini stage: the call, the empty-text test, the fence stripping,
\* the parse and the shape test; every throw ends in the stage's catch.
GeminiStage(o) ==
    IF o.throws THEN StageFailed
    ELSE IF IsEmptyString(o.text) THEN StageFailed
    ELSE ParsedQuestions(StripFences(o.text))

\* The OpenAI stage (part_001): as above without the fence stripping.
OpenAIStage(o) ==
    IF o.throws THEN StageFailed
    ELSE IF IsEmptyString(o.text) THEN StageFailed
    ELSE ParsedQuestions(o.text)

(***************************************************************************)
(* Provider: responses.                                                    *)
(***************************************************************************)
Variants == {"route", "part_000", "part_001"}

NoSource == "<none>"

NoResponse ==
    [status |-> 0, hasError |-> FALSE, hasQuestions |-> FALSE,
     questions |-> <<>>, source |-> NoSource]

\* NextResponse.json({ questions, source? }) : status 200 by default.
Json200(questions, source) ==
    [status |-> 200, hasError |-> FALSE, hasQuestions |-> TRUE,
     questions |-> questions, source |-> source]

\* NextResponse.json({ error: ... }, { status: 400 })
BadRequest ==
    [status |-> 400, hasError |-> TRUE, hasQuestions |-> FALSE,
     questions |-> <<>>, source |-> NoSource]

\* The outer catch of POST.
OuterCatch(v) ==
    IF v = "part_000"
    THEN Json200(Slice(mockData["General Knowledge"], 5), "fallback")
    ELSE Json200(Slice(fallbackQuestions, 5), "error-fallback")

\* TableFallback slicing one entry short.
TableFallbackOffByOne(v, req) ==
    IF v = "part_000"
    THEN IF req.subject \in DOMAIN mockData
         THEN Json200(Slice(mockData[req.subject], Count(req) - 1), "mock")
         ELSE IF req.subject \in InheritedKeys
         THEN OuterCatch(v)
         ELSE Json200(Slice(mockData["General Knowledge"], Count(req) - 1),
                      "mock")
    ELSE Json200(Slice(fallbackQuestions,
                       Min(Count(req), Len(fallbackQuestions)) - 1), "fallback")

\* The catch of the last generation stage.  part_000 looks the subject up
\* in mockData; a name inherited from Object.prototype is truthy but has no
\* slice, so the catch block itself throws into the outer catch.
TableFallback(v, req) ==
    IF v = "part_000"
    THEN IF req.subject \in DOMAIN mockData
         THEN Json200(Slice(mockData[req.subject], Count(req)), "mock")
         ELSE IF req.subject \in InheritedKeys
         THEN OuterCatch(v)
         ELSE Json200(Slice(mockData["General Knowledge"], Count(req)), "mock")
    ELSE Json200(Slice(fallbackQuestions,
                       Min(Count(req), Len(fallbackQuestions))), "fallback")

\* StageResponse tagging every generated list "openai".
StageResponseOneTag(v, stage, questions) ==
    IF v = "part_001" THEN Json200(questions, "openai")
    ELSE Json200(questions, NoSource)

\* The response of a generation stage that succeeded.
StageResponse(v, stage, questions) ==
    IF v = "part_001"
    THEN Json200(questions, IF stage = "primary" THEN "openai" ELSE "gemini")
    ELSE Json200(questions, NoSource)

\* The first generation stage of each variant.
PrimaryStage(v, o) == IF v = "part_001" THEN OpenAIStage(o) ELSE GeminiStage(o)

\* Only part_001 has a second stage.
HasSecondary(v) == v = "part_001"

(***************************************************************************)
(* Provider: the handler, one action per await.                            *)
(***************************************************************************)
\* await request.json(), the destructuring, the 400 test, and the call of
\* the first service.
POST_Begin ==
    /\ pc = "start"
    /\ IF request.body # "json"
       THEN /\ response' = OuterCatch(variant)
            /\ producer' = "table"
            /\ pc' = "done"
            /\ calls' = calls
       ELSE IF Falsy(request.subject) \/ Falsy(request.difficulty)
       THEN /\ response' = BadRequest
            /\ producer' = "none"
            /\ pc' = "done"
            /\ calls' = calls
       ELSE /\ pc' = "awaitPrimary"
            /\ calls' = [calls EXCEPT !.primary = @ + 1]
            /\ UNCHANGED <<response, producer>>
    /\ UNCHANGED <<variant, request, content, homeVars, quizVars>>

\* What the handler does once the first service has settled with o: the
\* response it sends, or the call of the second service.
PrimaryResult(v, req, o) ==
    LET r == PrimaryStage(v, o) IN
    IF r.ok
    THEN [pc |-> "done", producer |-> "primary", callSecondary |-> FALSE,
          response |-> StageResponse(v, "primary", r.questions)]
    ELSE IF HasSecondary(v)
    THEN [pc |-> "awaitSecondary", producer |-> "none", callSecondary |-> TRUE,
          response |-> NoResponse]
    ELSE [pc |-> "done", producer |-> "table", callSecondary |-> FALSE,
          response |-> TableFallback(v, req)]

\* What the handler does once the second service has settled with o.
SecondaryResult(v, req, o) ==
    LET r == GeminiStage(o) IN
    IF r.ok
    THEN [pc |-> "done", producer |-> "secondary", callSecondary |-> FALSE,
          response |-> StageResponse(v, "secondary", r.questions)]
    ELSE [pc |-> "done", producer |-> "table", callSecondary |-> FALSE,
          response |-> TableFallback(v, req)]

\* The first service settles.
POST_PrimarySettles ==
    /\ pc = "awaitPrimary"
    /\ \E o \in Outcomes :
        LET res == PrimaryResult(variant, request, o) IN
        /\ content' = [content EXCEPT !.primary = o]
        /\ pc' = res.pc
        /\ producer' = res.producer
        /\ response' = res.response
        /\ calls' = IF res.callSecondary
                    THEN [calls EXCEPT !.secondary = @ + 1]
                    ELSE calls
    /\ UNCHANGED <<variant, request, homeVars, quizVars>>

\* The second service settles (part_001).
POST_SecondarySettles ==
    /\ pc = "awaitSecondary"
    /\ \E o \in Outcomes :
        LET res == SecondaryResult(variant, request, o) IN
        /\ content' = [content EXCEPT !.secondary = o]
        /\ pc' = res.pc
        /\ producer' = res.producer
        /\ response' = res.response
    /\ UNCHANGED <<variant, request, calls, homeVars, quizVars>>

(***************************************************************************)
(* Home (page.tsx) and SubjectSelect.                                      *)
(***************************************************************************)
subjects == <<"Mathematics", "Science", "History", "General Knowledge",
             "Machine Learning">>
levels == <<"Easy", "Medium", "Hard">>

\* The buttons the user of the model clicks on.
ModelSubjects == {subjects[i] : i \in 1..Min(MaxSubjects, Len(subjects))}
ModelLevels == {levels[i] : i \in 1..Min(MaxLevels, Len(levels))}

\* Intro: onGetStartedClick.
GetStartedClick ==
    /\ displayView = "intro"
    /\ displayView' = "subject-select"
    /\ UNCHANGED <<selectedSubject, selectedLevel, quizVars, providerVars>>

\* SubjectSelect: a subject button.
SubjectChange ==
    /\ displayView = "subject-select"
    /\ \E subject \in ModelSubjects : selectedSubject' = subject
    /\ UNCHANGED <<displayView, selectedLevel, quizVars, providerVars>>

\* SubjectSelect: a level button.
LevelChange ==
    /\ displayView = "subject-select"
    /\ \E level \in ModelLevels : selectedLevel' = level
    /\ UNCHANGED <<displayView, selectedSubject, quizVars, providerVars>>

\* Button (not part of the sources at hand): a disabled button does not
\* call its onClick.
ButtonClickable(disabled) == ~disabled

\* A disabled test that looks at the subject only.
ContinueDisabledSubjectOnly == selectedSubject = ""

\* disabled={!selectedSubject || !selectedLevel}
ContinueDisabled == selectedSubject = "" \/ selectedLevel = ""

\* A Continue handler that shows the quiz at once.
ContinueClickToQuiz ==
    /\ displayView = "subject-select"
    /\ ButtonClickable(ContinueDisabled)
    /\ displayView' = "quiz"
    /\ UNCHANGED <<selectedSubject, selectedLevel, quizVars, providerVars>>

\* SubjectSelect: onContinue.
ContinueClick ==
    /\ displayView = "subject-select"
    /\ ButtonClickable(ContinueDisabled)
    /\ displayView' = "countdown"
    /\ UNCHANGED <<selectedSubject, selectedLevel, quizVars, providerVars>>

\* The body of the request the Quiz sends.
QuizRequest(subject, level) ==
    [body |-> "json", subject |-> subject, difficulty |-> level,
     hasCount |-> TRUE, numberOfQuestions |-> 10]

\* No request was sent.
NoRequest ==
    [body |-> "none", subject |-> Missing, difficulty |-> Missing,
     hasCount |-> FALSE, numberOfQuestions |-> 0]

\* A Go handler after which the Quiz sends no request.
GoClickNoFetch ==
    /\ displayView = "countdown"
    /\ displayView' = "quiz"
    /\ UNCHANGED <<selectedSubject, selectedLevel, quizVars, providerVars>>

\* Countdown: onGoClick.  The Quiz mounts in its initial state and its
\* fetch effect sends the request.
GoClick ==
    /\ displayView = "countdown"
    /\ displayView' = "quiz"
    /\ request' = QuizRequest(selectedSubject, selectedLevel)
    /\ fetched' = fetched + 1
    /\ UNCHANGED <<selectedSubject, selectedLevel, variant, pc, content,
                   calls, response, producer, loading, error, quizQuestions,
                   timePassed, activeQuestion, selectedAnswerIndex,
                   quizFinished, isCorrectAnswer, results, timerRef,
                   intervals, received>>

(***************************************************************************)
(* Quiz (Quiz.tsx).                                                        *)
(*                                                                         *)
(* A state of the model is a committed render of the component.  The       *)
(* effects of a commit run before the next timer or user event is handled; *)
(* the time-limit effect is a step of its own, because the render that     *)
(* triggers it (timePassed above the limit) is itself displayed.           *)
(***************************************************************************)
TIME_LIMIT == 60

\* error === null
NoError == "<null>"

\* Questions a session may be given: a well-shaped one and one whose
\* correctAnswer is none of its options.
QuizPool == {GenGood, GenBadAnswer}

\* How the fetch of the question list can end.
\*   "reject"   fetch() or response.json() rejects
\*   "notok"    a status outside 200..299
\*   "ok"       a JSON body whose questions member is absent
\*              ("noquestions"), no array ("nonarray") or the array qs
FetchOutcomes ==
    [ kind : {"reject"}, form : {"noquestions"}, qs : {<<>>} ]
    \cup
    [ kind : {"notok", "ok"}, form : {"noquestions", "nonarray"},
      qs : {<<>>} ]
    \cup
    [ kind : {"notok", "ok"}, form : {"array"},
      qs : SeqsUpTo(QuizPool, MaxQuestions) ]

\* The fetch has not settled.
NotReceived == [kind |-> "none", form |-> "noquestions", qs |-> <<>>]

InitialResults == [correctAnswers |-> 0, wrongAnswers |-> 0, secondsUsed |-> 0]

\* The guard shared by the timer effect and the time-limit effect.
EffectGuard ==
    ~(quizFinished \/ loading \/ error # NoError \/ Len(quizQuestions) = 0)

\* QuestionView without the early return of the finished quiz.
QuestionViewIgnoresFinished ==
    /\ displayView = "quiz"
    /\ ~loading
    /\ ~(error # NoError \/ Len(quizQuestions) = 0)

\* The question view is rendered (none of the three early returns taken).
QuestionView ==
    /\ displayView = "quiz"
    /\ ~loading
    /\ ~(error # NoError \/ Len(quizQuestions) = 0)
    /\ ~quizFinished

\* The time-limit effect of the committed render has work to do.
EffectPending == EffectGuard /\ timePassed > TIME_LIMIT

\* clearInterval(timerRef.current)
ClearTimer(live, ref) == live \ {ref}

\* setupTimer: clear the referenced interval, create and reference a new one.
SetupTimerRef(ref) == ref + 1
\* SetupTimerLive that forgets to clear the interval it replaces.
SetupTimerLiveNoClear(live, ref) == live \cup {SetupTimerRef(ref)}

SetupTimerLive(live, ref) == ClearTimer(live, ref) \cup {SetupTimerRef(ref)}

\* The fetch effect's outcome: the catch branch or the success branch,
\* followed by the timer effect (its dependencies changed).
FetchError(o) ==
    CASE o.kind = "reject" -> "Failed to fetch"
      [] o.kind = "notok" -> "Failed to fetch questions: status"
      [] OTHER -> "No questions received from the API"

\* FetchFails without the response.ok test.
FetchFailsIgnoresStatus(o) ==
    \/ o.kind = "reject"
    \/ o.form # "array"
    \/ Len(o.qs) = 0

\* FetchFails without the test for an empty list.
FetchFailsIgnoresEmpty(o) ==
    \/ o.kind # "ok"
    \/ o.form # "array"

FetchFails(o) ==
    \/ o.kind # "ok"
    \/ o.form # "array"
    \/ Len(o.qs) = 0

fetchQuestions ==
    /\ displayView = "quiz"
    /\ loading
    /\ \E o \in FetchOutcomes :
        /\ received' = o
        /\ IF FetchFails(o)
           THEN /\ error' = FetchError(o)
                /\ UNCHANGED <<quizQuestions, timerRef, intervals>>
           ELSE /\ quizQuestions' = o.qs
                /\ timerRef' = SetupTimerRef(timerRef)
                /\ intervals' = SetupTimerLive(intervals, timerRef)
                /\ error' = error
    /\ loading' = FALSE
    /\ UNCHANGED <<timePassed, activeQuestion, selectedAnswerIndex,
                   quizFinished, isCorrectAnswer, results, fetched,
                   homeVars, providerVars>>

\* An interval callback that stops counting at the limit.
TickValueStopsAtLimit(prev) == IF prev >= TIME_LIMIT THEN TIME_LIMIT ELSE prev + 1

\* The interval callback: setTimePassed(prev => ...).
TickValue(prev) == IF prev > TIME_LIMIT THEN TIME_LIMIT ELSE prev + 1

Tick ==
    /\ \E id \in intervals : TRUE
    /\ ~EffectPending
    /\ timePassed' = TickValue(timePassed)
    /\ UNCHANGED <<loading, error, quizQuestions, activeQuestion,
                   selectedAnswerIndex, quizFinished, isCorrectAnswer,
                   results, timerRef, intervals, fetched, received,
                   homeVars, providerVars>>

\* handleNextQuestion finishing one question late.
handleNextQuestionLate(tp) ==
    /\ selectedAnswerIndex' = -1
    /\ IF activeQuestion + 1 > Len(quizQuestions)
       THEN /\ quizFinished' = TRUE
            /\ intervals' = ClearTimer(intervals, timerRef)
            /\ timePassed' = tp
            /\ UNCHANGED <<activeQuestion, timerRef>>
       ELSE /\ activeQuestion' = activeQuestion + 1
            /\ timerRef' = SetupTimerRef(timerRef)
            /\ intervals' = SetupTimerLive(intervals, timerRef)
            /\ timePassed' = 0
            /\ quizFinished' = quizFinished

\* handleNextQuestion without its setupTimer().
handleNextQuestionNoTimer(tp) ==
    /\ selectedAnswerIndex' = -1
    /\ IF activeQuestion + 1 >= Len(quizQuestions)
       THEN /\ quizFinished' = TRUE
            /\ intervals' = ClearTimer(intervals, timerRef)
            /\ timePassed' = tp
            /\ UNCHANGED <<activeQuestion, timerRef>>
       ELSE /\ activeQuestion' = activeQuestion + 1
            /\ timePassed' = 0
            /\ UNCHANGED <<quizFinished, timerRef, intervals>>

\* handleNextQuestion with no cleanup of the timer effect at the finish.
handleNextQuestionNoCleanup(tp) ==
    /\ selectedAnswerIndex' = -1
    /\ IF activeQuestion + 1 >= Len(quizQuestions)
       THEN /\ quizFinished' = TRUE
            /\ timePassed' = tp
            /\ UNCHANGED <<activeQuestion, timerRef, intervals>>
       ELSE /\ activeQuestion' = activeQuestion + 1
            /\ timerRef' = SetupTimerRef(timerRef)
            /\ intervals' = SetupTimerLive(intervals, timerRef)
            /\ timePassed' = 0
            /\ quizFinished' = quizFinished

\* handleNextQuestion.  tp is the value timePassed keeps when the quiz
\* finishes (the handler returns before its own setTimePassed(0)).  When
\* quizFinished becomes true the timer effect's cleanup clears the interval.
handleNextQuestion(tp) ==
    /\ selectedAnswerIndex' = -1
    /\ IF activeQuestion + 1 >= Len(quizQuestions)
       THEN /\ quizFinished' = TRUE
            /\ intervals' = ClearTimer(intervals, timerRef)
            /\ timePassed' = tp
            /\ UNCHANGED <<activeQuestion, timerRef>>
       ELSE /\ activeQuestion' = activeQuestion + 1
            /\ timerRef' = SetupTimerRef(timerRef)
            /\ intervals' = SetupTimerLive(intervals, timerRef)
            /\ timePassed' = 0
            /\ quizFinished' = quizFinished

\* TimeLimitResults charging the displayed time instead of TIME_LIMIT.
TimeLimitResultsElapsed(res, sel) ==
    IF sel = -1
    THEN [res EXCEPT !.secondsUsed = @ + timePassed, !.wrongAnswers = @ + 1]
    ELSE res

\* TimeLimitResults charging the time without scoring the question.
TimeLimitResultsUnscored(res, sel) ==
    IF sel = -1
    THEN [res EXCEPT !.secondsUsed = @ + TIME_LIMIT]
    ELSE res

\* The results after the time limit passed on the active question.
TimeLimitResults(res, sel) ==
    IF sel = -1
    THEN [res EXCEPT !.secondsUsed = @ + TIME_LIMIT, !.wrongAnswers = @ + 1]
    ELSE res

\* The effect on [timePassed], when timePassed > TIME_LIMIT.
TimeLimitEffect ==
    /\ EffectPending
    /\ results' = TimeLimitResults(results, selectedAnswerIndex)
    /\ handleNextQuestion(0)
    /\ UNCHANGED <<loading, error, quizQuestions, isCorrectAnswer, fetched,
                   received, homeVars, providerVars>>

\* A Next Question button that is rendered with every question.
NextQuestionClickAlways ==
    /\ QuestionView
    /\ ~EffectPending
    /\ handleNextQuestion(timePassed)
    /\ UNCHANGED <<loading, error, quizQuestions, isCorrectAnswer, results,
                   fetched, received, homeVars, providerVars>>

\* The Next Question button, rendered once an option is selected.
NextQuestionClick ==
    /\ QuestionView
    /\ ~EffectPending
    /\ selectedAnswerIndex # -1
    /\ handleNextQuestion(timePassed)
    /\ UNCHANGED <<loading, error, quizQuestions, isCorrectAnswer, results,
                   fetched, received, homeVars, providerVars>>

\* An OptionList that stays clickable after a selection.
OptionListAlwaysEnabled == TRUE

\* OptionList (not part of the sources at hand): an option can be picked
\* only while the active question has no selection.
OptionListEnabled == selectedAnswerIndex = -1

\* IsCorrect comparing with the first option, whatever was picked.
IsCorrectFirstOption(q, answerIndex) == q.correctAnswer = q.options[1]

\* correctAnswer === selectedAnswer, answerIndex counted from 0.
IsCorrect(q, answerIndex) == q.correctAnswer = q.options[answerIndex + 1]

\* SelectResults that counts only the correct selections.
SelectResultsCorrectOnly(res, correct, tp) ==
    IF correct
    THEN [res EXCEPT !.secondsUsed = @ + tp, !.correctAnswers = @ + 1]
    ELSE [res EXCEPT !.secondsUsed = @ + tp]

\* The results after a selection.
SelectResults(res, correct, tp) ==
    IF correct
    THEN [res EXCEPT !.secondsUsed = @ + tp, !.correctAnswers = @ + 1]
    ELSE [res EXCEPT !.secondsUsed = @ + tp, !.wrongAnswers = @ + 1]

\* handleSelectAnswer without the clearInterval.
handleSelectAnswerNoStop(answerIndex) ==
    LET q == quizQuestions[activeQuestion + 1]
        correct == IsCorrect(q, answerIndex)
    IN  /\ selectedAnswerIndex' = answerIndex
        /\ results' = SelectResults(results, correct, timePassed)
        /\ isCorrectAnswer' = correct
        /\ UNCHANGED <<loading, error, quizQuestions, timePassed,
                       activeQuestion, quizFinished, timerRef, intervals,
                       fetched, received, homeVars, providerVars>>

handleSelectAnswer(answerIndex) ==
    LET q == quizQuestions[activeQuestion + 1]
        correct == IsCorrect(q, answerIndex)
    IN  /\ intervals' = ClearTimer(intervals, timerRef)
        /\ selectedAnswerIndex' = answerIndex
        /\ results' = SelectResults(results, correct, timePassed)
        /\ isCorrectAnswer' = correct
        /\ UNCHANGED <<loading, error, quizQuestions, timePassed,
                       activeQuestion, quizFinished, timerRef, fetched,
                       received, homeVars, providerVars>>

SelectAnswer ==
    /\ QuestionView
    /\ ~EffectPending
    /\ OptionListEnabled
    /\ \E answerIndex \in 0..(Len(quizQuestions[activeQuestion + 1].options) - 1) :
          handleSelectAnswer(answerIndex)

(***************************************************************************)
(* Specifications.                                                         *)
(***************************************************************************)
\* The Quiz component before it is mounted / as it is mounted.
QuizInitial ==
    /\ loading = TRUE
    /\ error = NoError
    /\ quizQuestions = <<>>
    /\ timePassed = 0
    /\ activeQuestion = 0
    /\ selectedAnswerIndex = -1
    /\ quizFinished = FALSE
    /\ isCorrectAnswer = FALSE
    /\ results = InitialResults
    /\ timerRef = 0
    /\ intervals = {}
    /\ received = NotReceived

ProviderIdle ==
    /\ pc = "start"
    /\ content = [primary |-> NotCalled, secondary |-> NotCalled]
    /\ calls = [primary |-> 0, secondary |-> 0]
    /\ response = NoResponse
    /\ producer = "none"

\* What the Quiz renders, in the order of its early returns.
ViewState ==
    IF displayView # "quiz" THEN displayView
    ELSE IF loading THEN "quiz-loading"
    ELSE IF error # NoError \/ Len(quizQuestions) = 0 THEN "quiz-error"
    ELSE IF quizFinished THEN "quiz-finished"
    ELSE "quiz-active"

\* The Try Again button of the error view: window.location.reload()
\* discards every state and shows the intro again.
TryAgain ==
    /\ ViewState = "quiz-error"
    /\ displayView' = "intro"
    /\ selectedSubject' = ""
    /\ selectedLevel' = ""
    /\ request' = NoRequest
    /\ loading' = TRUE
    /\ error' = NoError
    /\ quizQuestions' = <<>>
    /\ timePassed' = 0
    /\ activeQuestion' = 0
    /\ selectedAnswerIndex' = -1
    /\ quizFinished' = FALSE
    /\ isCorrectAnswer' = FALSE
    /\ results' = InitialResults
    /\ timerRef' = 0
    /\ intervals' = {}
    /\ fetched' = 0
    /\ received' = NotReceived
    /\ UNCHANGED <<variant, pc, content, calls, response, producer>>

\* Spec: one request to the Provider, any variant, any body.
Init ==
    /\ variant \in Variants
    /\ request \in Requests
    /\ ProviderIdle
    /\ displayView = "intro"
    /\ selectedSubject = ""
    /\ selectedLevel = ""
    /\ QuizInitial
    /\ fetched = 0

Next == POST_Begin \/ POST_PrimarySettles \/ POST_SecondarySettles

Spec == Init /\ [][Next]_vars

\* SpecQuiz: one Quiz session, from the mount of the component (the fetch
\* effect has sent its request) on.  The component uses its props only in
\* the body of that request and in the texts it renders.
InitQuiz ==
    /\ variant = "route"
    /\ request = [body |-> "json", subject |-> "History",
                  difficulty |-> "Easy", hasCount |-> TRUE,
                  numberOfQuestions |-> 10]
    /\ ProviderIdle
    /\ displayView = "quiz"
    /\ selectedSubject = "History"
    /\ selectedLevel = "Easy"
    /\ QuizInitial
    /\ fetched = 1

NextQuiz ==
    \/ fetchQuestions
    \/ Tick
    \/ TimeLimitEffect
    \/ SelectAnswer
    \/ NextQuestionClick

SpecQuiz == InitQuiz /\ [][NextQuiz]_vars

\* SpecQuizFair: SpecQuiz with a live interval that keeps firing once a
\* second and effects that React runs after the commit that needs them.
SpecQuizFair ==
    /\ InitQuiz
    /\ [][NextQuiz]_vars
    /\ WF_vars(Tick)
    /\ WF_vars(TimeLimitEffect)

\* SpecApp: the page from its load on, through Home's views and the Quiz.
InitApp ==
    /\ variant = "route"
    /\ request = NoRequest
    /\ ProviderIdle
    /\ displayView = "intro"
    /\ selectedSubject = ""
    /\ selectedLevel = ""
    /\ QuizInitial
    /\ fetched = 0

NextApp ==
    \/ GetStartedClick
    \/ SubjectChange
    \/ LevelChange
    \/ ContinueClick
    \/ GoClick
    \/ fetchQuestions
    \/ Tick
    \/ TimeLimitEffect
    \/ SelectAnswer
    \/ NextQuestionClick
    \/ TryAgain

SpecApp == InitApp /\ [][NextApp]_vars


(***************************************************************************)
(* Claims about the Provider (checked under Spec).                         *)
(***************************************************************************)
Responded == pc = "done"

\* The request carries a non-empty subject and a non-empty difficulty.
HasSubjectAndDifficulty ==
    /\ request.body = "json"
    /\ ~Falsy(request.subject)
    /\ ~Falsy(request.difficulty)

\* ... and a count of at least 1 (an absent count is the default, 10).
ValidRequest == HasSubjectAndDifficulty /\ Count(request) >= 1

\* The stage a source tag names.
SourceStage(tag) ==
    CASE tag = "openai" -> "primary"
      [] tag = "gemini" -> "secondary"
      [] tag \in {"fallback", "mock", "error-fallback"} -> "table"
      [] OTHER -> "none"

\* Every generation stage of the variant was called and failed.
AllStagesFailed ==
    /\ Responded
    /\ calls.primary = 1
    /\ producer = "table"

\* C1: a request with a non-empty subject, a non-empty difficulty and a
\* count of at least 1 is answered with status 200 and a non-empty
\* questions list, however the external services behave.
C1_AlwaysQuestions ==
    (Responded /\ ValidRequest) =>
        /\ response.status = 200
        /\ response.hasQuestions
        /\ Len(response.questions) > 0

\* C1 witness: both services of the two-stage variant failed, the second
\* with an empty questions array, and the request was still answered.
C1_Witness ==
    /\ Responded /\ ValidRequest
    /\ variant = "part_001"
    /\ content.primary.throws
    /\ content.secondary.text.form = "array"
    /\ ~content.secondary.throws
    /\ content.secondary.text.qs = <<>>
    /\ response.status = 200
    /\ Len(response.questions) > 0

\* C2 (as claimed): a request in which subject or difficulty is missing or
\* empty is answered with status 400, an error field and no questions.
C2_Missing400 ==
    (Responded /\ ~HasSubjectAndDifficulty) =>
        /\ response.status = 400
        /\ response.hasError
        /\ ~response.hasQuestions

\* C6 (as claimed): if the primary stage throws, the response comes from the
\* secondary stage or the fallback table, its questions list is not empty and
\* its source tag, when present, names the stage that produced the list.
C6_PrimaryThrows ==
    (Responded /\ content.primary.throws) =>
        /\ producer \in {"secondary", "table"}
        /\ Len(response.questions) > 0
        /\ (response.source # NoSource =>
                SourceStage(response.source) = producer)

\* C6 (amended): the same, for requests whose count is at least 1.
C6_PrimaryThrowsCounted ==
    (Responded /\ content.primary.throws /\ Count(request) >= 1) =>
        /\ producer \in {"secondary", "table"}
        /\ Len(response.questions) > 0
        /\ (response.source # NoSource =>
                SourceStage(response.source) = producer)

\* C6 witness: the primary stage threw and the secondary stage produced
\* the questions, tagged as its own.
C6_Witness ==
    /\ Responded
    /\ content.primary.throws
    /\ Count(request) >= 1
    /\ producer = "secondary"
    /\ response.source = "gemini"
    /\ Len(response.questions) > 0

\* A text that is malformed JSON, or JSON without a non-empty questions array.
Malformed(o) ==
    /\ ~o.throws
    /\ \/ o.text.form \in {"garbage", "null", "noquestions", "nonarray"}
       \/ o.text.form = "array" /\ o.text.qs = <<>>

\* C7: a stage that returns malformed JSON, or JSON without a non-empty
\* questions array, is handled exactly as if its call had thrown: the same
\* next stage is called, or the same response (questions, source, status)
\* is sent.
C7_MalformedIsFailure ==
    [][ /\ (pc = "awaitPrimary" /\ Malformed(content'.primary)) =>
            LET t == PrimaryResult(variant, request, Throws) IN
            /\ pc' = t.pc
            /\ response' = t.response
            /\ producer' = t.producer
            /\ calls'.secondary = calls.secondary + (IF t.callSecondary THEN 1 ELSE 0)
        /\ (pc = "awaitSecondary" /\ Malformed(content'.secondary)) =>
            LET t == SecondaryResult(variant, request, Throws) IN
            /\ pc' = t.pc
            /\ response' = t.response
            /\ producer' = t.producer ]_vars

\* C7 witness: the first stage returned fenced text that is no JSON, the
\* second a JSON object without questions, and the table answered.
C7_Witness ==
    /\ Responded
    /\ variant = "part_001"
    /\ ~content.primary.throws
    /\ content.primary.text.form = "garbage"
    /\ content.primary.text.fenced
    /\ ~content.secondary.throws
    /\ content.secondary.text.form = "noquestions"
    /\ response.source = "fallback"
    /\ response.status = 200

\* The number of questions the producing stage had to offer.
Available ==
    CASE producer = "primary" -> Len(content.primary.text.qs)
      [] producer = "secondary" -> Len(content.secondary.text.qs)
      [] OTHER -> 5

\* C8 (as claimed): a valid request is answered with exactly
\* min(count, available) questions, on the generation paths as on the
\* fallback path.
C8_ExactCount ==
    (Responded /\ ValidRequest) =>
        Len(response.questions) = Min(Count(request), Available)

\* The Question invariant: 4 distinct options, correctAnswer is one of them.
QuestionInvariant(q) ==
    /\ Len(q.options) = 4
    /\ \A i, j \in 1..Len(q.options) : q.options[i] = q.options[j] => i = j
    /\ \E i \in 1..Len(q.options) : q.options[i] = q.correctAnswer

\* C9 (as claimed): every question of every 200 response satisfies the
\* Question invariant, whichever stage produced it.
C9_WellShaped ==
    (Responded /\ response.status = 200) =>
        \A i \in 1..Len(response.questions) :
            QuestionInvariant(response.questions[i])

\* The fallback table entry of a subject, "General Knowledge" by default.
TableEntry(subject) ==
    IF subject \in DOMAIN mockData THEN mockData[subject]
    ELSE mockData["General Knowledge"]

\* C10 (as claimed): when every generation stage fails, the questions are
\* the first min(count, n) entries of the fallback table entry of the
\* requested subject, or of "General Knowledge" if the subject has none.
C10_SubjectFallback ==
    (AllStagesFailed /\ HasSubjectAndDifficulty) =>
        /\ response.status = 200
        /\ response.questions =
              Slice(TableEntry(request.subject), Count(request))


(***************************************************************************)
(* Claims about the Quiz session (checked under SpecQuiz).                 *)
(***************************************************************************)
Scored == results.correctAnswers + results.wrongAnswers

\* C3: in a completed session correctAnswers + wrongAnswers is the number
\* of questions.
C3_TallyComplete ==
    quizFinished => Scored = Len(quizQuestions)

\* C3 witness: a completed session of two questions, one answered
\* correctly and one scored wrong.
C3_Witness ==
    /\ quizFinished
    /\ Len(quizQuestions) = 2
    /\ results.correctAnswers = 1
    /\ results.wrongAnswers = 1

\* C4: secondsUsed never exceeds the number of questions times TIME_LIMIT.
C4_SecondsBounded ==
    results.secondsUsed <= Len(quizQuestions) * TIME_LIMIT

\* C4 witness: a completed session that used the whole time of every
\* question.
C4_Witness ==
    /\ quizFinished
    /\ Len(quizQuestions) = 2
    /\ results.secondsUsed = Len(quizQuestions) * TIME_LIMIT

\* C5: when the time limit passes with no option selected, the question is
\* scored wrong once (wrongAnswers + 1, correctAnswers unchanged) and the
\* index advances by exactly one, or the quiz finishes on the last question;
\* the step leaves the question, so the effect cannot score it again.
C5_TimeoutScoresOnce ==
    [][ (EffectPending /\ selectedAnswerIndex = -1) =>
          /\ results'.wrongAnswers = results.wrongAnswers + 1
          /\ results'.correctAnswers = results.correctAnswers
          /\ ~EffectPending'
          /\ \/ /\ activeQuestion + 1 < Len(quizQuestions)
                /\ activeQuestion' = activeQuestion + 1
                /\ ~quizFinished'
             \/ /\ activeQuestion + 1 = Len(quizQuestions)
                /\ activeQuestion' = activeQuestion
                /\ quizFinished' ]_vars

\* C5 witness: the first of two questions timed out unanswered; the second
\* is active with its clock at 0.
C5_Witness ==
    /\ Len(quizQuestions) = 2
    /\ activeQuestion = 1
    /\ ~quizFinished
    /\ timePassed = 0
    /\ selectedAnswerIndex = -1
    /\ results = [correctAnswers |-> 0, wrongAnswers |-> 1,
                  secondsUsed |-> TIME_LIMIT]
    /\ intervals = {timerRef}


\* C11 (as claimed): timePassed is at most TIME_LIMIT in every state.
C11_TimeClamped == timePassed <= TIME_LIMIT

\* C17: while the active question has a recorded selection, no step changes
\* the tally, and the selection changes only by being reset to -1.
C17_OneSelection ==
    [][ selectedAnswerIndex # -1 =>
          /\ results' = results
          /\ selectedAnswerIndex' \in {selectedAnswerIndex, -1} ]_vars

\* C17 witness: a selection is recorded and scored on the active question.
C17_Witness ==
    /\ QuestionView
    /\ selectedAnswerIndex = 2
    /\ Scored = activeQuestion + 1
    /\ activeQuestion = 1

\* The question an interval was created for.
TimerQuestion(id) == id - 1

\* C18: at most one interval is live; a live interval is the one timerRef
\* holds, was created for the active question, and none is live once the
\* quiz has finished, so no tick of an earlier question's timer can act.
C18_OneLiveTimer ==
    /\ Cardinality(intervals) <= 1
    /\ \A id \in intervals :
          /\ id = timerRef
          /\ TimerQuestion(id) = activeQuestion
          /\ ~quizFinished

\* C18 witness: the second question is active after a time-limit advance,
\* its own timer is the only live one and has ticked.
C18_Witness ==
    /\ activeQuestion = 1
    /\ results.secondsUsed = TIME_LIMIT
    /\ results.wrongAnswers = 1
    /\ timerRef = 2
    /\ intervals = {2}
    /\ timePassed = 3

\* C19: from a selection until the Next Question click timePassed, the
\* question index and quizFinished do not change, no interval is live and
\* the time-limit effect never becomes pending.
C19_SelectStopsTimer ==
    /\ [][ (selectedAnswerIndex # -1 /\ selectedAnswerIndex' # -1) =>
             /\ timePassed' = timePassed
             /\ activeQuestion' = activeQuestion
             /\ quizFinished' = quizFinished ]_vars
    /\ [](selectedAnswerIndex # -1 => (intervals = {} /\ ~EffectPending))

\* C19 witness: an option was selected 7 seconds into the first question;
\* its timer exists but is no longer live.
C19_Witness ==
    /\ selectedAnswerIndex # -1
    /\ activeQuestion = 0
    /\ timePassed = 7
    /\ timerRef = 1
    /\ intervals = {}

\* C20: a selection of option i adds 1 to correctAnswers (wrongAnswers
\* unchanged) iff options[i] equals correctAnswer, otherwise 1 to
\* wrongAnswers (correctAnswers unchanged); secondsUsed grows by timePassed.
C20_SelectionScored ==
    [][ (selectedAnswerIndex = -1 /\ selectedAnswerIndex' # -1) =>
          LET q == quizQuestions[activeQuestion + 1]
              hit == q.options[selectedAnswerIndex' + 1] = q.correctAnswer
          IN  /\ results'.secondsUsed = results.secondsUsed + timePassed
              /\ hit => /\ results'.correctAnswers = results.correctAnswers + 1
                        /\ results'.wrongAnswers = results.wrongAnswers
              /\ ~hit => /\ results'.wrongAnswers = results.wrongAnswers + 1
                         /\ results'.correctAnswers = results.correctAnswers
        ]_vars

\* C20 witness: the right option of the first question was picked after 5
\* seconds.
C20_Witness ==
    /\ activeQuestion = 0
    /\ selectedAnswerIndex = 1
    /\ quizQuestions[1] = GenGood
    /\ isCorrectAnswer
    /\ results = [correctAnswers |-> 1, wrongAnswers |-> 0, secondsUsed |-> 5]


(***************************************************************************)
(* Claims about the Provider, continued (checked under Spec).              *)
(***************************************************************************)
\* The first stage has settled and failed.
PrimaryFailed ==
    /\ content.primary # NotCalled
    /\ ~PrimaryStage(variant, content.primary).ok

\* The second stage has settled and failed.
SecondaryFailed ==
    /\ content.secondary # NotCalled
    /\ ~GeminiStage(content.secondary).ok

\* C16 (as claimed): each service is invoked at most once per request, the
\* second only after the first stage has failed and never while its call is
\* pending, and the fallback table answers only after every configured
\* stage has failed.
C16_Sequential ==
    /\ calls.primary <= 1
    /\ calls.secondary <= 1
    /\ calls.secondary = 1 => (calls.primary = 1 /\ PrimaryFailed)
    /\ pc = "awaitPrimary" => calls.secondary = 0
    /\ producer = "table" =>
          /\ calls.primary = 1 /\ PrimaryFailed
          /\ HasSecondary(variant) => (calls.secondary = 1 /\ SecondaryFailed)


\* The view that follows a view in the flow.
NextView(from, to) ==
    \/ from = "intro" /\ to = "subject-select"
    \/ from = "subject-select" /\ to = "countdown"
    \/ from = "countdown" /\ to = "quiz-loading"
    \/ from = "quiz-loading" /\ to \in {"quiz-error", "quiz-active"}
    \/ from = "quiz-active" /\ to = "quiz-finished"

\* A reload of the page: the session ends and a new one starts at the intro.
Reloaded ==
    /\ displayView' = "intro"
    /\ selectedSubject' = ""
    /\ selectedLevel' = ""
    /\ loading'
    /\ error' = NoError
    /\ quizQuestions' = <<>>
    /\ results' = InitialResults
    /\ activeQuestion' = 0
    /\ timePassed' = 0
    /\ intervals' = {}
    /\ fetched' = 0

\* C12: within a session the view only moves forward, intro to
\* subject-select to countdown to quiz-loading to quiz-error or quiz-active,
\* and quiz-active to quiz-finished; no earlier view is entered again until
\* the page is loaded anew.
C12_ForwardOnly ==
    [][ ViewState' # ViewState => (NextView(ViewState, ViewState') \/ Reloaded) ]_vars

C12_Witness ==
    /\ ViewState = "quiz-finished"
    /\ selectedSubject = subjects[2]
    /\ Scored = Len(quizQuestions)
    /\ Len(quizQuestions) = MaxQuestions

\* C13: the countdown and the quiz are shown only with a subject and a
\* level selected, and the request the Quiz sends carries that subject and
\* that level, neither of them empty.
C13_SelectionsMade ==
    /\ displayView \in {"countdown", "quiz"} =>
          (selectedSubject # "" /\ selectedLevel # "")
    /\ fetched >= 1 =>
          /\ request.subject = selectedSubject
          /\ request.difficulty = selectedLevel
          /\ ~Falsy(request.subject)
          /\ ~Falsy(request.difficulty)

C13_Witness ==
    /\ ViewState = "quiz-loading"
    /\ fetched = 1
    /\ request.subject = subjects[1]
    /\ request.difficulty = levels[1]

\* The fetch failed, was answered with a status that is not OK, or its body
\* holds no list of questions or an empty one.
NoQuestionsReceived(o) ==
    \/ o.kind \in {"reject", "notok"}
    \/ o.form \in {"noquestions", "nonarray"}
    \/ o.qs = <<>>

\* C14: the loading view is left for the error view when the fetch fails,
\* is answered not OK or brings an empty or malformed list, and otherwise
\* for the active quiz with the fetched list stored as it came.
C14_LoadingResolves ==
    [][ (ViewState = "quiz-loading" /\ ViewState' # "quiz-loading") =>
          /\ received' \in FetchOutcomes
          /\ NoQuestionsReceived(received') =>
                (ViewState' = "quiz-error" /\ error' # NoError)
          /\ ~NoQuestionsReceived(received') =>
                /\ ViewState' = "quiz-active"
                /\ error' = NoError
                /\ quizQuestions' = received'.qs ]_vars

C14_Witness ==
    /\ ViewState = "quiz-active"
    /\ received.kind = "ok"
    /\ quizQuestions = <<GenBadAnswer, GenGood>>
    /\ activeQuestion = 0
    /\ timePassed = 0
    /\ intervals = {1}

\* C15: the error view is never left for the active or the finished quiz;
\* while it shows, no timer runs and the tally and the question index stay
\* as they were; the only step that leaves it is a reload of the page.
C15_ErrorTerminal ==
    /\ [][ ViewState = "quiz-error" =>
              \/ /\ ViewState' = "quiz-error"
                 /\ UNCHANGED <<results, activeQuestion, timePassed>>
              \/ Reloaded ]_vars
    /\ [](ViewState = "quiz-error" =>
              /\ intervals = {}
              /\ timerRef = 0
              /\ ~EffectPending
              /\ results = InitialResults
              /\ activeQuestion = 0)

C15_Witness ==
    /\ ViewState = "quiz-error"
    /\ received.kind = "ok"
    /\ received.form = "array"
    /\ received.qs = <<>>
    /\ error # NoError

(***************************************************************************)
(* Claims about the Quiz session, continued.                               *)
(***************************************************************************)
\* C21: the question index starts at 0, never decreases, changes by +1
\* only, and with a non-empty list lies in 0 .. number of questions - 1.
C21_IndexInRange ==
    /\ activeQuestion = 0
    /\ [][ activeQuestion' \in {activeQuestion, activeQuestion + 1} ]_vars
    /\ [](Len(quizQuestions) > 0 =>
             (0 <= activeQuestion /\ activeQuestion < Len(quizQuestions)))

C21_Witness ==
    /\ quizFinished
    /\ Len(quizQuestions) = MaxQuestions
    /\ activeQuestion = MaxQuestions - 1
    /\ results.wrongAnswers = MaxQuestions

\* C22: once the quiz is finished it stays finished, and the tally and the
\* question index stay as they are.
C22_FinishedTerminal ==
    [][ quizFinished =>
          /\ quizFinished'
          /\ results' = results
          /\ activeQuestion' = activeQuestion ]_vars

C22_Witness ==
    /\ quizFinished
    /\ results.correctAnswers = 1
    /\ results.wrongAnswers = 1
    /\ results.secondsUsed = TIME_LIMIT + 2
    /\ intervals = {}

\* C23: a session sends exactly one request, when the quiz view mounts,
\* and a stored question list is never replaced nor fetched again.
C23_FetchedOnce ==
    /\ [](fetched = IF displayView = "quiz" THEN 1 ELSE 0)
    /\ [][ quizQuestions # <<>> =>
              (quizQuestions' = quizQuestions /\ fetched' = fetched) ]_vars

C23_Witness ==
    /\ ViewState = "quiz-finished"
    /\ fetched = 1
    /\ quizQuestions = received.qs
    /\ Len(quizQuestions) = MaxQuestions
    /\ results.correctAnswers = MaxQuestions

\* C24: right after every advance to a next question, by the Next Question
\* click or by the time limit, timePassed is 0, no option is selected and
\* the one live timer is the new question's.
C24_AdvanceResets ==
    [][ activeQuestion' # activeQuestion =>
          /\ timePassed' = 0
          /\ selectedAnswerIndex' = -1
          /\ intervals' = {timerRef'}
          /\ TimerQuestion(timerRef') = activeQuestion' ]_vars

C24_Witness ==
    /\ activeQuestion = 1
    /\ timePassed = 0
    /\ selectedAnswerIndex = -1
    /\ intervals = {2}
    /\ results = [correctAnswers |-> 1, wrongAnswers |-> 0, secondsUsed |-> 4]

\* C26: the index advances, and the quiz finishes, only past questions
\* that were answered or timed out: the tally counts at least
\* activeQuestion questions, and all of them once the quiz is finished.
C26_NoneSkipped ==
    /\ Scored >= activeQuestion
    /\ quizFinished => Scored >= Len(quizQuestions)

C26_Witness ==
    /\ activeQuestion = 1
    /\ ~quizFinished
    /\ selectedAnswerIndex = -1
    /\ results = [correctAnswers |-> 0, wrongAnswers |-> 1, secondsUsed |-> 3]

\* The fetch has produced a list to play.
Playable == ~loading /\ error = NoError /\ Len(quizQuestions) > 0

\* C27: a finished quiz has loaded, without error, a non-empty list; a
\* live timer exists only then, too, and only while the quiz is unfinished.
C27_LegalFlags ==
    /\ quizFinished => Playable
    /\ intervals # {} => (Playable /\ ~quizFinished)

C27_Witness ==
    /\ intervals # {}
    /\ activeQuestion = 1
    /\ timePassed = TIME_LIMIT
    /\ results.secondsUsed = TIME_LIMIT

\* Every question timed out: nothing right, all wrong, the full time each.
AllTimedOut ==
    results = [correctAnswers |-> 0,
               wrongAnswers |-> Len(quizQuestions),
               secondsUsed |-> Len(quizQuestions) * TIME_LIMIT]

\* C25: when the active quiz is reached and no option is ever selected,
\* the ticks of the timer alone bring the session to the finished quiz,
\* with every question counted wrong at the full time limit.
C25_IdleFinishes ==
    (<>(ViewState = "quiz-active") /\ [](selectedAnswerIndex = -1))
        => <>(quizFinished /\ AllTimedOut)

C25_Witness ==
    /\ quizFinished
    /\ AllTimedOut
    /\ Len(quizQuestions) = MaxQuestions
    /\ timePassed = 0
    /\ isCorrectAnswer = FALSE
=============================================================================
